---- MODULE Spec2Model ----
(***************************************************************************)
(* Model of the transaction broadcast engine of forge script               *)
(* (crates/forge/bin/cmd/script/broadcast.rs):                             *)
(*   ScriptArgs::send_transactions / send_transaction / broadcast and      *)
(*   ScriptArgs::create_script_sequences / bundle_transactions.            *)
(* Positions in Rust vectors are 0-based; TLA+ sequences are 1-based, so   *)
(* the transaction at Rust index i is transactions[i + 1].                 *)
(***************************************************************************)
EXTENDS Integers, Sequences, FiniteSets, TLC

\* ------------------------------------------------------------------ bounds
\* Longest transaction list of the small configurations.
MaxTxs == 3
\* First nonce of every sender in the generated transaction lists.
BaseNonce == 5
\* Distance between the transaction nonce and a drifted endpoint nonce.
DriftGap == 2
\* Largest number of receipts a boundary-length sequence is entered with.
MaxDone == 1
\* Longest transaction stream handed to bundle_transactions.
MaxStream == 5
\* Longest transaction list of a script that is bundled and then sent.
MaxDeploy == 2

\* Largest value of the integer type of gas values (U256 in the program).
MaxWord == 65535
\* --gas-estimate-multiplier of the runs that do not vary it.
DefaultMultiplier == 130
\* Gas limit the simulation gave the first transaction of a stream.
BaseGas == 100
\* Distance between the gas limit of a transaction and the endpoint's estimate.
EstimateGap == 50

\* ------------------------------------------------------- program constants
\* let batch_size = 100;
BatchSize == 100
\* futures::stream::iter(pending_transactions).buffered(7)
BufferWidth == 7

\* --------------------------------------------------------------- universes
Addrs == {"A", "B"}
NoAddr == "none"
None == <<>>
Chains == {1, 1284, 42161}
Shapes == {"Legacy", "Eip1559"}
\* Failures that are returned as Err(..) through `?` or bail!.
ErrKinds == {"provider", "chain_id", "sender_unset", "no_wallet", "nonce_query",
             "nonce_drift", "estimate_gas", "sign", "send", "receipts", "save",
             "eip1559_fees", "gas_price", "no_transactions", "fill_gas",
             "returns"}
\* Failures that unwind the run through .unwrap() or .expect(..).
PanicKinds == {"expect_gas_price", "expect_eip1559_fees", "estimate_fee",
               "estimate_overflow"}

VARIABLES
    \* inputs of send_transactions
    self,                 \* ScriptArgs: unlocked, slow, skip_simulation, sender,
                          \* with_gas_price, priority_gas_price, broadcast,
                          \* legacy, gas_estimate_multiplier
    signers,              \* keys of the signer map
    chain,                \* chain id the endpoint reports
    deployment_sequence,  \* ScriptSequence: transactions, pending, receipts
    saved,                \* on-disk record written by save(): <<>> or <<record>>
    \* locals of send_transactions
    pc, err, already_broadcasted, send_kind, sequential_broadcast, sequence,
    batch_number, pos, index, queue, next_start,
    \* observations
    sendLog,              \* ids of the transactions a send call was issued for
    pendLog,              \* arguments of every add_pending call
    oracle,               \* last next_nonce query: <<>> or <<tx id, answer>>
    calls,                \* endpoint and signer calls: <<name, tx id, gas sent>>
    \* bundle_transactions
    bpc, stream, fork_url, cursor, new_sequence, deployments, config_chain,
    original_config_chain,
    total_gas_per_rpc,    \* endpoint -> sum of the gas of its transactions
    estimates,            \* estimate_gas calls of the bundling: <<id, outcome>>
    \* estimate_gas on its own
    estimation            \* one call: its inputs, the request sent, the outcome

sendVars == <<self, signers, chain, deployment_sequence, saved, pc, err,
              already_broadcasted, send_kind, sequential_broadcast, sequence,
              batch_number, pos, index, queue, next_start, sendLog, pendLog,
              oracle, calls>>
bundleVars == <<bpc, stream, fork_url, cursor, new_sequence, deployments,
                config_chain, original_config_chain, total_gas_per_rpc,
                estimates>>
vars == <<sendVars, bundleVars, estimation>>

\* ----------------------------------------------------------------- helpers
Min(a, b) == IF a < b THEN a ELSE b

Range(s) == {s[i] : i \in 1..Len(s)}

\* Option<T>: None is the empty tuple, Some(v) the tuple of v.
Some(v) == <<v>>

\* Hash the endpoint returns for a submitted transaction: determined by the
\* signed payload, which differs between any two (from, nonce) pairs.
HashOf(tx) == <<tx.from, tx.nonce>>

\* Nonce the simulation gave the i-th transaction of a list with senders froms.
NonceAt(froms, i) ==
    BaseNonce + Cardinality({j \in 1..(i - 1) : froms[j] = froms[i]})

\* foundry_cli::utils::has_batch_support: false for the Arbitrum family.
has_batch_support(c) == c \notin {42161}

\* foundry_cli::utils::has_different_gas_calc: chains whose gas estimation
\* depends on earlier in-flight transactions.
has_different_gas_calc(c) == c \in {1284, 42161}

\* ------------------------------------------------------- ScriptSequence API
\* ScriptSequence::add_pending(index, tx_hash)
add_pending(seq, i, tx_hash) ==
    [seq EXCEPT !.transactions[i + 1].hash = tx_hash,
                !.pending = Append(@, tx_hash)]

HasReceipt(seq, h) == \E r \in 1..Len(seq.receipts) : seq.receipts[r].transaction_hash = h

\* Hashes clear_pendings polls: the given ones, or every pending hash that
\* has no receipt yet.
to_query(seq, tx_hashes) ==
    IF tx_hashes # None THEN tx_hashes
    ELSE SelectSeq(seq.pending, LAMBDA h : ~HasReceipt(seq, h))

\* Receipts of the first k polled hashes are written to the sequence.
add_receipts(seq, hashes, k) ==
    [seq EXCEPT !.receipts =
        @ \o [j \in 1..k |-> [transaction_hash |-> hashes[j]]]]

\* ScriptSequence::save(): the record that ends up on disk.
Persisted(seq) == <<seq>>

\* ------------------------------------------------------ SendTransactionsKind
\* SendTransactionsKind::signers_count
signers_count(kind) ==
    IF kind.tag = "Unlocked" THEN Cardinality(kind.senders)
    ELSE Cardinality(kind.signers)

\* SendTransactionsKind::for_sender: the per-transaction kind, or "err".
for_sender(kind, addr) ==
    IF kind.tag = "Unlocked"
    THEN IF addr \in kind.senders THEN [tag |-> "Unlocked", addr |-> addr]
         ELSE [tag |-> "err", addr |-> addr]
    ELSE IF addr \in kind.signers THEN [tag |-> "Raw", addr |-> addr]
         ELSE [tag |-> "err", addr |-> addr]

\* ------------------------------------------------------- send_transactions
\* Variant without the skip: the whole list is taken.
skip_nothing(transactions, n) == transactions

\* .skip(already_broadcasted): the transactions that are still to be sent.
skip(transactions, n) == SubSeq(transactions, n + 1, Len(transactions))

\* required_addresses: the senders of the tail.
required_addresses(seq) ==
    {t.from : t \in Range(skip(seq.transactions, Len(seq.receipts)))}

\* Variant without the wrap_err on the sender.
sender_is_set_any(args) == TRUE

\* self.evm_opts.sender.wrap_err("--sender must be set with --unlocked")? is Ok.
sender_is_set(args) == args.sender # NoAddr

\* Variant that takes the senders of the tail only.
unlocked_senders_tail(seq, sender) == {sender} \cup required_addresses(seq)

\* The senders handed to SendTransactionsKind::Unlocked: the configured sender
\* and the from address of every transaction of the sequence.
unlocked_senders(seq, sender) ==
    {sender} \cup {seq.transactions[i].from : i \in 1..Len(seq.transactions)}

\* missing_addresses of the Raw branch.
missing_addresses(seq, wallets) == required_addresses(seq) \ wallets

\* The send kind resolved at entry.
resolve_kind(args, seq, wallets) ==
    IF args.unlocked
    THEN [tag |-> "Unlocked", senders |-> unlocked_senders(seq, args.sender),
          signers |-> {}]
    ELSE [tag |-> "Raw", senders |-> {}, signers |-> wallets]

\* Variant that ignores the number of signers.
SequentialBroadcastAnyCount(count, slow, c) ==
    slow \/ ~has_batch_support(c)

\* Variant that ignores --slow.
SequentialBroadcastNoSlow(count, slow, c) ==
    count # 1 \/ ~has_batch_support(c)

\* let sequential_broadcast = ...
SequentialBroadcast(count, slow, c) ==
    count # 1 \/ slow \/ ~has_batch_support(c)

\* deployment_sequence.transactions.front(): the transaction whose shape
\* selects the one-time estimation.
front(seq) == seq.transactions[1]

\* The call the one-time estimation makes.
snapshot_call(seq) ==
    <<IF front(seq).shape = "Eip1559" THEN "estimate_eip1559_fees"
      ELSE "get_gas_price",
      front(seq).id, None>>

\* (gas_price, eip1559_fees) the one-time estimation can bind: the fee pair
\* for an Eip1559 front; otherwise the gas price, or nothing when the query
\* failed (.ok()). A failed estimate_eip1559_fees returns through `?`.
FeeSnapshots(seq) ==
    IF front(seq).shape = "Eip1559"
    THEN {[gas_price |-> None,
           eip1559_fees |-> Some(<<"est_max_fee", "est_priority_fee">>)]}
    ELSE {[gas_price |-> Some("provider_gas_price"), eip1559_fees |-> None],
          [gas_price |-> None, eip1559_fees |-> None]}

\* TypedTransaction::set_gas_price: an Eip1559 request takes the value as
\* both of its fee fields.
set_gas_price(tx, p) ==
    IF tx.shape = "Eip1559"
    THEN [tx EXCEPT !.max_fee_per_gas = Some(p),
                    !.max_priority_fee_per_gas = Some(p)]
    ELSE [tx EXCEPT !.gas_price = Some(p)]

\* eip1559_fees.expect(..) or gas_price.expect(..) panics for the transaction.
fee_expect_fails(tx, args, snap) ==
    /\ args.with_gas_price = None
    /\ IF tx.shape = "Eip1559" THEN snap.eip1559_fees = None
       ELSE snap.gas_price = None

\* Variant that takes the priority fee of the estimation whatever the flag.
priority_fee_estimated(args, snap) == Some(snap.eip1559_fees[1][2])

\* max_priority_fee_per_gas: --priority-gas-price, else the estimated one.
priority_fee(args, snap) ==
    IF args.priority_gas_price # None THEN args.priority_gas_price
    ELSE Some(snap.eip1559_fees[1][2])

\* The fee fields of a tail transaction.
fill_fees(tx, args, snap) ==
    IF args.with_gas_price # None
    THEN set_gas_price(tx, args.with_gas_price[1])
    ELSE IF tx.shape = "Eip1559"
         THEN [tx EXCEPT
                  !.max_priority_fee_per_gas = priority_fee(args, snap),
                  !.max_fee_per_gas = Some(snap.eip1559_fees[1][1])]
         ELSE set_gas_price(tx, snap.gas_price[1])

\* The vector collected from the tail: transaction (chain id and fees set),
\* zk, kind, is_fixed_gas_limit.
finalize(seq, n, kind, c, args, snap) ==
    LET tail == skip(seq.transactions, n)
    IN  [k \in 1..Len(tail) |->
            [tx |-> fill_fees([id |-> tail[k].id, from |-> tail[k].from,
                               nonce |-> tail[k].nonce,
                               shape |-> tail[k].shape, gas |-> tail[k].gas,
                               chain_id |-> Some(c), gas_price |-> None,
                               max_fee_per_gas |-> None,
                               max_priority_fee_per_gas |-> None],
                              args, snap),
             zk |-> tail[k].zk,
             kind |-> for_sender(kind, tail[k].from),
             is_fixed_gas_limit |-> tail[k].is_fixed_gas_limit]]

\* sequence.chunks(batch_size)
NumChunks(s) == (Len(s) + BatchSize - 1) \div BatchSize

\* Variant whose chunks take one element more.
ChunkWide(s, b) == SubSeq(s, b * BatchSize + 1, Min((b + 1) * BatchSize + 1, Len(s)))

Chunk(s, b) == SubSeq(s, b * BatchSize + 1, Min((b + 1) * BatchSize, Len(s)))
Batch == Chunk(sequence, batch_number)

TailNonEmpty ==
    Len(deployment_sequence.receipts) < Len(deployment_sequence.transactions)

inputVars == <<self, signers, chain>>
loopVars == <<batch_number, pos, index, queue, next_start>>
obsVars == <<sendLog, pendLog, oracle, calls>>

\* The run ends with the failure: an Err(..) returned, or a panic.
Fail(kind) ==
    /\ pc' = IF kind \in PanicKinds THEN "panic" ELSE "error"
    /\ err' = kind

\* try_get_http_provider(fork_url)? fails.
EnterProviderFail ==
    /\ pc = "entry"
    /\ Fail("provider")
    /\ UNCHANGED <<inputVars, deployment_sequence, saved, already_broadcasted,
                   send_kind, sequential_broadcast, sequence, loopVars,
                   obsVars, bundleVars, estimation>>

\* already_broadcasted >= transactions.len(): nothing is sent.
EnterNothingToSend ==
    /\ pc = "entry"
    /\ ~TailNonEmpty
    /\ already_broadcasted' = Len(deployment_sequence.receipts)
    /\ pc' = "done"
    /\ UNCHANGED <<inputVars, deployment_sequence, saved, err, send_kind,
                   sequential_broadcast, sequence, loopVars, obsVars,
                   bundleVars, estimation>>

\* provider.get_chainid().await? fails in either branch.
EnterChainIdFail ==
    /\ pc = "entry"
    /\ TailNonEmpty
    /\ self.unlocked \/ missing_addresses(deployment_sequence, signers) = {}
    /\ already_broadcasted' = Len(deployment_sequence.receipts)
    /\ Fail("chain_id")
    /\ UNCHANGED <<inputVars, deployment_sequence, saved, send_kind,
                   sequential_broadcast, sequence, loopVars, obsVars,
                   bundleVars, estimation>>

\* --unlocked without --sender.
EnterSenderUnset ==
    /\ pc = "entry"
    /\ TailNonEmpty
    /\ self.unlocked
    /\ ~sender_is_set(self)
    /\ already_broadcasted' = Len(deployment_sequence.receipts)
    /\ Fail("sender_unset")
    /\ UNCHANGED <<inputVars, deployment_sequence, saved, send_kind,
                   sequential_broadcast, sequence, loopVars, obsVars,
                   bundleVars, estimation>>

\* A tail sender without a wallet in the signer map.
EnterNoWallet ==
    /\ pc = "entry"
    /\ TailNonEmpty
    /\ ~self.unlocked
    /\ missing_addresses(deployment_sequence, signers) # {}
    /\ already_broadcasted' = Len(deployment_sequence.receipts)
    /\ Fail("no_wallet")
    /\ UNCHANGED <<inputVars, deployment_sequence, saved, send_kind,
                   sequential_broadcast, sequence, loopVars, obsVars,
                   bundleVars, estimation>>

\* The send kind is resolved without error.
KindResolved ==
    IF self.unlocked THEN sender_is_set(self)
    ELSE missing_addresses(deployment_sequence, signers) = {}

\* estimate_eip1559_fees(..).await.wrap_err(..)? fails.
EnterFeeFail ==
    /\ pc = "entry"
    /\ TailNonEmpty
    /\ KindResolved
    /\ front(deployment_sequence).shape = "Eip1559"
    /\ already_broadcasted' = Len(deployment_sequence.receipts)
    /\ calls' = Append(calls, snapshot_call(deployment_sequence))
    /\ Fail("eip1559_fees")
    /\ UNCHANGED <<inputVars, deployment_sequence, saved, send_kind,
                   sequential_broadcast, sequence, loopVars, sendLog, pendLog,
                   oracle, bundleVars, estimation>>

\* The tail transactions whose fee the snapshot cannot fill.
Unfillable(snap) ==
    LET tail == skip(deployment_sequence.transactions,
                     Len(deployment_sequence.receipts))
    IN  {k \in 1..Len(tail) : fee_expect_fails(tail[k], self, snap)}

\* The closure that finalizes the tail panics on the first transaction whose
\* fee is missing from the snapshot.
EnterPanic ==
    /\ pc = "entry"
    /\ TailNonEmpty
    /\ KindResolved
    /\ \E snap \in FeeSnapshots(deployment_sequence) :
          /\ Unfillable(snap) # {}
          /\ LET tail == skip(deployment_sequence.transactions,
                              Len(deployment_sequence.receipts))
                 first == CHOOSE k \in Unfillable(snap) :
                              \A j \in Unfillable(snap) : k <= j
             IN  Fail(IF tail[first].shape = "Eip1559"
                      THEN "expect_eip1559_fees" ELSE "expect_gas_price")
    /\ already_broadcasted' = Len(deployment_sequence.receipts)
    /\ calls' = Append(calls, snapshot_call(deployment_sequence))
    /\ UNCHANGED <<inputVars, deployment_sequence, saved, send_kind,
                   sequential_broadcast, sequence, loopVars, sendLog, pendLog,
                   oracle, bundleVars, estimation>>

\* Kind resolved, mode decided, fees estimated once, tail finalized: the batch
\* loop starts.
EnterOk ==
    /\ pc = "entry"
    /\ TailNonEmpty
    /\ KindResolved
    /\ \E snap \in FeeSnapshots(deployment_sequence) :
          /\ Unfillable(snap) = {}
          /\ LET n == Len(deployment_sequence.receipts)
                 kind == resolve_kind(self, deployment_sequence, signers)
                 fin == finalize(deployment_sequence, n, kind, chain, self, snap)
             IN  /\ \A k \in 1..Len(fin) : fin[k].kind.tag # "err"
                 /\ already_broadcasted' = n
                 /\ send_kind' = kind
                 /\ sequential_broadcast' =
                        SequentialBroadcast(signers_count(kind), self.slow, chain)
                 /\ sequence' = fin
    /\ calls' = Append(calls, snapshot_call(deployment_sequence))
    /\ index' = 0
    /\ batch_number' = 0
    /\ pc' = "batch"
    /\ UNCHANGED <<inputVars, deployment_sequence, saved, err, pos, queue,
                   next_start, sendLog, pendLog, oracle, bundleVars, estimation>>

\* for (batch_number, batch) in sequence.chunks(batch_size): next chunk.
BatchBegin ==
    /\ pc = "batch"
    /\ batch_number < NumChunks(sequence)
    /\ pos' = 1
    /\ queue' = <<>>
    /\ next_start' = 1
    /\ pc' = IF sequential_broadcast THEN "seq" ELSE "par"
    /\ UNCHANGED <<inputVars, deployment_sequence, saved, err,
                   already_broadcasted, send_kind, sequential_broadcast,
                   sequence, batch_number, index, obsVars, bundleVars, estimation>>

\* The loop is exhausted: totals are printed and Ok(()) is returned.
Finish ==
    /\ pc = "batch"
    /\ batch_number = NumChunks(sequence)
    /\ pc' = "done"
    /\ UNCHANGED <<inputVars, deployment_sequence, saved, err,
                   already_broadcasted, send_kind, sequential_broadcast,
                   sequence, loopVars, obsVars, bundleVars, estimation>>

\* -------------------------------------------------------- send_transaction
\* Answers the endpoint can give to next_nonce for the sender of tx.
OracleAnswers(tx) == {tx.nonce, tx.nonce + DriftGap}

\* Variant without the comparison.
nonce_matches_any(nonce, tx_nonce) == TRUE

\* if nonce != tx_nonce { bail!(..) }: the check passes. Every nonce of the
\* model fits u64, so the u64::try_from guard around it always succeeds.
nonce_matches(nonce, tx_nonce) == nonce = tx_nonce

\* Gas is re-estimated before the send: the Unlocked arm of send_transaction
\* and the head of broadcast (the signer carries the endpoint's chain id).
needs_estimate(args, kind, is_fixed_gas_limit, c) ==
    IF kind.tag = "Unlocked"
    THEN ~is_fixed_gas_limit /\ (has_different_gas_calc(c) \/ args.skip_simulation)
    ELSE has_different_gas_calc(c) \/ args.skip_simulation

\* Variant that goes on to the next transaction without awaiting the receipt.
after_add_pending_nowait(p, len) == IF p < len THEN "seq" ELSE "batchEnd"

\* Where the sequential loop goes after add_pending: clear_pendings is awaited.
after_add_pending(p, len) == "clear"

\* Variant that queries the nonce in both modes.
queries_nonce_always(sequential) == TRUE

\* if sequential_broadcast { forge::next_nonce(..) .. }
queries_nonce(sequential) == sequential

\* Gas limit of the request that is submitted for the entry: the limit of the
\* Eip712 request is the one zks_estimateFee returned; otherwise the limit
\* estimate_gas set, or the one the transaction carries.
sent_gas(args, e, c) ==
    IF e.kind.tag = "Raw" /\ e.zk THEN <<"estimate_fee", e.tx.id>>
    ELSE IF needs_estimate(args, e.kind, e.is_fixed_gas_limit, c)
         THEN <<"estimated", e.tx.id>>
         ELSE e.tx.gas

\* The calls send_transaction makes for an entry when none of them fails, in
\* order: <<name, transaction id, gas limit submitted>>.
CallsOf(args, e, sequential, c) ==
    LET id == e.tx.id
        call(name) == << <<name, id, None>> >>
        estimate ==
            IF needs_estimate(args, e.kind, e.is_fixed_gas_limit, c)
            THEN call("estimate_gas") ELSE <<>>
    IN  (IF queries_nonce(sequential) THEN call("next_nonce") ELSE <<>>)
        \o (IF e.kind.tag = "Unlocked"
            THEN (IF ~e.is_fixed_gas_limit THEN call("get_chainid") ELSE <<>>)
                 \o estimate
                 \o << <<"send_transaction", id, sent_gas(args, e, c)>> >>
            ELSE estimate
                 \o (IF e.zk
                     THEN call("get_gas_price") \o call("zks_estimateFee")
                          \o call("sign_typed_data")
                     ELSE call("sign_transaction"))
                 \o << <<"send_raw_transaction", id, sent_gas(args, e, c)>> >>)

HasCall(cs, name) == \E i \in 1..Len(cs) : cs[i][1] = name

\* The calls made when the call of the given name is the one that fails.
CallsUpTo(cs, name) ==
    SubSeq(cs, 1, CHOOSE i \in 1..Len(cs) : cs[i][1] = name)

SendCalls == {"send_transaction", "send_raw_transaction"}

Cur == Batch[pos]

CurCalls == CallsOf(self, Cur, sequential_broadcast, chain)

seqFrame == <<inputVars, saved, already_broadcasted, send_kind,
              sequential_broadcast, sequence, batch_number, queue, next_start,
              bundleVars, estimation>>

\* forge::next_nonce(..) fails.
SeqNonceQueryFail ==
    /\ pc = "seq"
    /\ sequential_broadcast
    /\ calls' = calls \o CallsUpTo(CurCalls, "next_nonce")
    /\ Fail("nonce_query")
    /\ UNCHANGED <<seqFrame, deployment_sequence, pos, index, sendLog, pendLog,
                   oracle>>

\* The endpoint reports another nonce than the transaction carries.
SeqNonceDrift ==
    /\ pc = "seq"
    /\ sequential_broadcast
    /\ \E nonce \in OracleAnswers(Cur.tx) :
          /\ ~nonce_matches(nonce, Cur.tx.nonce)
          /\ oracle' = <<Cur.tx.id, nonce>>
    /\ calls' = calls \o CallsUpTo(CurCalls, "next_nonce")
    /\ Fail("nonce_drift")
    /\ UNCHANGED <<seqFrame, deployment_sequence, pos, index, sendLog, pendLog>>

\* The nonce check of a sequential send passed with the given answer.
NoncePassed(nonce) ==
    /\ nonce \in OracleAnswers(Cur.tx)
    /\ nonce_matches(nonce, Cur.tx.nonce)

\* provider.get_chainid().await? of the Unlocked arm fails.
SeqChainIdFail ==
    /\ pc = "seq"
    /\ \E nonce \in OracleAnswers(Cur.tx) :
          NoncePassed(nonce) /\ oracle' = <<Cur.tx.id, nonce>>
    /\ HasCall(CurCalls, "get_chainid")
    /\ calls' = calls \o CallsUpTo(CurCalls, "get_chainid")
    /\ Fail("chain_id")
    /\ UNCHANGED <<seqFrame, deployment_sequence, pos, index, sendLog, pendLog>>

\* self.estimate_gas(..).await? fails.
SeqEstimateFail ==
    /\ pc = "seq"
    /\ \E nonce \in OracleAnswers(Cur.tx) :
          NoncePassed(nonce) /\ oracle' = <<Cur.tx.id, nonce>>
    /\ needs_estimate(self, Cur.kind, Cur.is_fixed_gas_limit, chain)
    /\ calls' = calls \o CallsUpTo(CurCalls, "estimate_gas")
    /\ Fail("estimate_gas")
    /\ UNCHANGED <<seqFrame, deployment_sequence, pos, index, sendLog, pendLog>>

\* The endpoint's estimate times the multiplier does not fit the integer
\* type: the multiplication in estimate_gas panics.
SeqEstimatePanic ==
    /\ pc = "seq"
    /\ \E nonce \in OracleAnswers(Cur.tx) :
          NoncePassed(nonce) /\ oracle' = <<Cur.tx.id, nonce>>
    /\ needs_estimate(self, Cur.kind, Cur.is_fixed_gas_limit, chain)
    /\ calls' = calls \o CallsUpTo(CurCalls, "estimate_gas")
    /\ Fail("estimate_overflow")
    /\ UNCHANGED <<seqFrame, deployment_sequence, pos, index, sendLog, pendLog>>

\* Failures of the Eip712 branch of broadcast before the signature:
\* provider.get_gas_price().await? returns the error, and
\* provider.request("zks_estimateFee", ..).await.unwrap() panics.
ZkFailKinds == {<<"get_gas_price", "gas_price">>,
                <<"zks_estimateFee", "estimate_fee">>}

SeqZkFail ==
    /\ pc = "seq"
    /\ \E nonce \in OracleAnswers(Cur.tx) :
          NoncePassed(nonce) /\ oracle' = <<Cur.tx.id, nonce>>
    /\ Cur.kind.tag = "Raw"
    /\ Cur.zk
    /\ \E f \in ZkFailKinds :
          /\ calls' = calls \o CallsUpTo(CurCalls, f[1])
          /\ Fail(f[2])
    /\ UNCHANGED <<seqFrame, deployment_sequence, pos, index, sendLog, pendLog>>

\* signer.sign_transaction(..) or sign_typed_data(..) fails (Raw kind).
SeqSignFail ==
    /\ pc = "seq"
    /\ \E nonce \in OracleAnswers(Cur.tx) :
          NoncePassed(nonce) /\ oracle' = <<Cur.tx.id, nonce>>
    /\ Cur.kind.tag = "Raw"
    /\ calls' = calls \o CallsUpTo(CurCalls, IF Cur.zk THEN "sign_typed_data"
                                             ELSE "sign_transaction")
    /\ Fail("sign")
    /\ UNCHANGED <<seqFrame, deployment_sequence, pos, index, sendLog, pendLog>>

\* provider.send_transaction / send_raw_transaction is issued and fails.
SeqSendFail ==
    /\ pc = "seq"
    /\ \E nonce \in OracleAnswers(Cur.tx) :
          NoncePassed(nonce) /\ oracle' = <<Cur.tx.id, nonce>>
    /\ sendLog' = Append(sendLog, Cur.tx.id)
    /\ calls' = calls \o CurCalls
    /\ Fail("send")
    /\ UNCHANGED <<seqFrame, deployment_sequence, pos, index, pendLog>>

\* The send is issued, its hash is awaited and recorded with add_pending.
SeqSendOk ==
    /\ pc = "seq"
    /\ \E nonce \in OracleAnswers(Cur.tx) :
          NoncePassed(nonce) /\ oracle' = <<Cur.tx.id, nonce>>
    /\ sendLog' = Append(sendLog, Cur.tx.id)
    /\ calls' = calls \o CurCalls
    /\ deployment_sequence' =
           add_pending(deployment_sequence, index, HashOf(Cur.tx))
    /\ pendLog' = Append(pendLog, <<index, HashOf(Cur.tx)>>)
    /\ index' = index + 1
    /\ pc' = after_add_pending(pos, Len(Batch))
    /\ pos' = IF pc' = "clear" THEN pos ELSE pos + 1
    /\ UNCHANGED <<seqFrame, err>>

\* clear_pendings(provider, deployment_sequence, Some(vec![tx_hash])) is Ok.
SeqClearOk ==
    /\ pc = "clear"
    /\ LET hashes == to_query(deployment_sequence, <<HashOf(Cur.tx)>>)
       IN  deployment_sequence' =
               add_receipts(deployment_sequence, hashes, Len(hashes))
    /\ pos' = pos + 1
    /\ pc' = IF pos < Len(Batch) THEN "seq" ELSE "batchEnd"
    /\ UNCHANGED <<seqFrame, err, index, obsVars>>

\* clear_pendings(.., Some(vec![tx_hash])) fails: the receipt is missing.
SeqClearFail ==
    /\ pc = "clear"
    /\ Fail("receipts")
    /\ UNCHANGED <<seqFrame, deployment_sequence, pos, index, obsVars>>

\* ------------------------------------------------------ the buffered stream
\* Variant whose queue takes one future more than the width.
can_start_wide(q, started, len) == Len(q) <= BufferWidth /\ started <= len

\* Buffered::poll_next pulls the next future while the queue is below the width.
can_start(q, started, len) == Len(q) < BufferWidth /\ started <= len

\* Variant that yields in completion order (buffer_unordered): the youngest
\* completed future of the queue.
yield_pos_unordered(q) ==
    IF \E j \in 1..Len(q) : q[j].st = "done"
    THEN CHOOSE j \in 1..Len(q) :
             /\ q[j].st = "done"
             /\ \A i \in (j + 1)..Len(q) : q[i].st # "done"
    ELSE 1

\* FuturesOrdered yields the output of the oldest future of the queue.
yield_pos(q) == 1

\* Variant that never polls the receipts of a parallel batch.
polls_batch_never(sequential) == FALSE

\* if !sequential_broadcast { clear_pendings(.., None) } after the checkpoint.
polls_batch(sequential) == ~sequential

Running(q) == {j \in 1..Len(q) : q[j].st = "running"}

RemoveAt(q, j) == SubSeq(q, 1, j - 1) \o SubSeq(q, j + 1, Len(q))

parFrame == <<inputVars, saved, already_broadcasted, send_kind,
              sequential_broadcast, sequence, batch_number, pos, bundleVars, estimation>>

\* A send_transaction future of the batch is polled for the first time.
ParStart ==
    /\ pc = "par"
    /\ can_start(queue, next_start, Len(Batch))
    /\ queue' = Append(queue, [k |-> next_start, st |-> "running"])
    /\ sendLog' = Append(sendLog, Batch[next_start].tx.id)
    /\ calls' = calls \o CallsOf(self, Batch[next_start], sequential_broadcast,
                                  chain)
    /\ next_start' = next_start + 1
    /\ UNCHANGED <<parFrame, deployment_sequence, pc, err, index, pendLog, oracle>>

\* An in-flight send_transaction future completes, in any order.
ParComplete ==
    /\ pc = "par"
    /\ ~can_start(queue, next_start, Len(Batch))
    /\ \E j \in Running(queue) :
          queue' = [queue EXCEPT ![j].st = "done"]
    /\ UNCHANGED <<parFrame, deployment_sequence, pc, err, index, next_start,
                   obsVars>>

Yieldable ==
    /\ pc = "par"
    /\ ~can_start(queue, next_start, Len(Batch))
    /\ queue # <<>>
    /\ queue[yield_pos(queue)].st = "done"

\* buffer.next() yields Ok(tx_hash): add_pending(index, tx_hash); index += 1.
ParYieldOk ==
    /\ Yieldable
    /\ LET e == Batch[queue[yield_pos(queue)].k]
       IN  /\ deployment_sequence' =
                  add_pending(deployment_sequence, index, HashOf(e.tx))
           /\ pendLog' = Append(pendLog, <<index, HashOf(e.tx)>>)
    /\ index' = index + 1
    /\ queue' = RemoveAt(queue, yield_pos(queue))
    /\ UNCHANGED <<parFrame, pc, err, next_start, sendLog, oracle, calls>>

\* Failures a send_transaction future of the entry can end with.
FailKinds(e) ==
    {"send"} \cup (IF e.kind.tag = "Raw" THEN {"sign"} ELSE {})
             \cup (IF needs_estimate(self, e.kind, e.is_fixed_gas_limit, chain)
                   THEN {"estimate_gas", "estimate_overflow"} ELSE {})
             \cup (IF e.kind.tag = "Unlocked" /\ ~e.is_fixed_gas_limit
                   THEN {"chain_id"} ELSE {})
             \cup (IF e.kind.tag = "Raw" /\ e.zk
                   THEN {f[2] : f \in ZkFailKinds} ELSE {})

\* buffer.next() yields Err and tx_hash? returns it, or the future panicked.
ParYieldErr ==
    /\ Yieldable
    /\ \E kind \in FailKinds(Batch[queue[yield_pos(queue)].k]) : Fail(kind)
    /\ UNCHANGED <<parFrame, deployment_sequence, index, queue, next_start,
                   obsVars>>

Drained == pc = "par" /\ queue = <<>> /\ next_start > Len(Batch)

\* The checkpoint save after the buffer is drained.
ParSave ==
    /\ Drained
    /\ saved' = Persisted(deployment_sequence)
    /\ pc' = IF polls_batch(sequential_broadcast) THEN "parClear" ELSE "batchEnd"
    /\ UNCHANGED <<inputVars, deployment_sequence, err, already_broadcasted,
                   send_kind, sequential_broadcast, sequence, loopVars,
                   obsVars, bundleVars, estimation>>

ParSaveFail ==
    /\ Drained
    /\ Fail("save")
    /\ UNCHANGED <<inputVars, deployment_sequence, saved, already_broadcasted,
                   send_kind, sequential_broadcast, sequence, loopVars,
                   obsVars, bundleVars, estimation>>

\* clear_pendings(provider, deployment_sequence, None) is Ok.
ParClearOk ==
    /\ pc = "parClear"
    /\ LET hashes == to_query(deployment_sequence, None)
       IN  deployment_sequence' =
               add_receipts(deployment_sequence, hashes, Len(hashes))
    /\ pc' = "batchEnd"
    /\ UNCHANGED <<inputVars, saved, err, already_broadcasted, send_kind,
                   sequential_broadcast, sequence, loopVars, obsVars,
                   bundleVars, estimation>>

\* clear_pendings(.., None) fails after the receipts of k hashes arrived.
ParClearFail ==
    /\ pc = "parClear"
    /\ LET hashes == to_query(deployment_sequence, None)
       IN  \E k \in 0..(Len(hashes) - 1) :
              deployment_sequence' = add_receipts(deployment_sequence, hashes, k)
    /\ Fail("receipts")
    /\ UNCHANGED <<inputVars, saved, already_broadcasted, send_kind,
                   sequential_broadcast, sequence, loopVars, obsVars,
                   bundleVars, estimation>>

\* The checkpoint save that ends every batch.
BatchEnd ==
    /\ pc = "batchEnd"
    /\ saved' = Persisted(deployment_sequence)
    /\ batch_number' = batch_number + 1
    /\ pc' = "batch"
    /\ UNCHANGED <<inputVars, deployment_sequence, err, already_broadcasted,
                   send_kind, sequential_broadcast, sequence, pos, index,
                   queue, next_start, obsVars, bundleVars, estimation>>

BatchEndSaveFail ==
    /\ pc = "batchEnd"
    /\ Fail("save")
    /\ UNCHANGED <<inputVars, deployment_sequence, saved, already_broadcasted,
                   send_kind, sequential_broadcast, sequence, loopVars,
                   obsVars, bundleVars, estimation>>

\* ----------------------------------------------------------- initial states
\* A sequence of the given senders, entered with the first n transactions
\* mined: they carry their hash, and the pending and receipts lists hold the
\* hashes and receipts of that prefix. The transactions are legacy requests
\* without zk metadata that carry the gas limit of the simulation.
SequenceWith(froms, fixed, n) ==
    LET tx(i) == [id |-> i - 1, from |-> froms[i], nonce |-> NonceAt(froms, i)]
    IN  [transactions |->
             [i \in 1..Len(froms) |->
                 [id |-> i - 1, from |-> froms[i],
                  nonce |-> NonceAt(froms, i),
                  is_fixed_gas_limit |-> fixed[i],
                  shape |-> "Legacy", zk |-> FALSE,
                  gas |-> <<"simulated", i - 1>>,
                  hash |-> IF i <= n THEN HashOf(tx(i)) ELSE None]],
         pending |-> [i \in 1..n |-> HashOf(tx(i))],
         receipts |-> [i \in 1..n |-> [transaction_hash |-> HashOf(tx(i))]]]

\* The sequence with the given request shapes and zk metadata.
Shaped(seq, shapes, zks) ==
    [seq EXCEPT !.transactions =
        [i \in 1..Len(seq.transactions) |->
            [seq.transactions[i] EXCEPT !.shape = shapes[i], !.zk = zks[i]]]]

\* ScriptArgs and signer maps: sender matters under --unlocked only, the
\* signer map under the Raw kind only. No fee flag is given.
ArgsAndSigners ==
    {<<[unlocked |-> u, slow |-> s, skip_simulation |-> k, sender |-> a,
        with_gas_price |-> None, priority_gas_price |-> None,
        broadcast |-> TRUE, legacy |-> FALSE,
        gas_estimate_multiplier |-> DefaultMultiplier], w>> :
        <<u, s, k, a, w>> \in
            {c \in BOOLEAN \X BOOLEAN \X BOOLEAN \X (Addrs \cup {NoAddr})
                   \X (SUBSET Addrs) :
                IF c[1] THEN c[5] = {} ELSE c[4] = NoAddr}}

BundleIdle ==
    /\ bpc = "off"
    /\ stream = <<>>
    /\ fork_url = NoAddr
    /\ cursor = 0
    /\ new_sequence = <<>>
    /\ deployments = <<>>
    /\ config_chain = None
    /\ original_config_chain = None
    /\ total_gas_per_rpc = <<>>
    /\ estimates = <<>>

SendEntry(seq) ==
    /\ deployment_sequence = seq
    /\ saved = IF Len(seq.receipts) > 0 THEN Persisted(seq) ELSE <<>>
    /\ pc = "entry"
    /\ err = "none"
    /\ already_broadcasted = 0
    /\ send_kind = [tag |-> "none", senders |-> {}, signers |-> {}]
    /\ sequential_broadcast = FALSE
    /\ sequence = <<>>
    /\ batch_number = 0
    /\ pos = 0
    /\ index = 0
    /\ queue = <<>>
    /\ next_start = 0
    /\ sendLog = <<>>
    /\ pendLog = <<>>
    /\ oracle = <<>>
    /\ calls = <<>>

\* is_fixed_gas_limit flags of a list of n transactions: none, all, or one.
FixedFlags(n) ==
    {[i \in 1..n |-> i \in S] : S \in {{}, 1..n} \cup {{i} : i \in 1..n}}

\* Request shape and zk metadata the transactions of a short list share.
TxVariants == {<<"Legacy", FALSE>>, <<"Eip1559", FALSE>>, <<"Legacy", TRUE>>}

\* Every short transaction list under every configuration.
Init ==
    /\ \E n \in 1..MaxTxs :
         \E froms \in [1..n -> Addrs], fixed \in FixedFlags(n), r \in 0..n,
            v \in TxVariants :
             SendEntry(Shaped(SequenceWith(froms, fixed, r),
                              [i \in 1..n |-> v[1]], [i \in 1..n |-> v[2]]))
    /\ \E as \in ArgsAndSigners : self = as[1] /\ signers = as[2]
    /\ chain \in Chains
    /\ BundleIdle
    /\ estimation = None

\* Tail lengths around the batch size.
BoundaryLens == {BatchSize, BatchSize + 1, 2 * BatchSize - 1, 2 * BatchSize}

\* ScriptArgs of the long runs.
BoundaryArgs(unlocked, sender) ==
    [unlocked |-> unlocked, slow |-> FALSE, skip_simulation |-> FALSE,
     sender |-> sender, with_gas_price |-> None, priority_gas_price |-> None,
     broadcast |-> TRUE, legacy |-> FALSE,
     gas_estimate_multiplier |-> DefaultMultiplier]

\* Configurations of the long runs, <<args, signers, chain, shape, zk,
\* is_fixed_gas_limit>>: one parallel (unlocked single sender on a batching
\* chain, fee-market requests with a fixed gas limit), two sequential on a
\* chain without batch support whose gas is re-estimated (Raw, whose last
\* transaction carries zk metadata, and unlocked), and the two that fail
\* before the loop.
BoundaryConfigs ==
    {<<BoundaryArgs(TRUE, "A"), {}, 1, "Eip1559", FALSE, TRUE>>,
     <<BoundaryArgs(FALSE, NoAddr), {"A"}, 42161, "Legacy", TRUE, FALSE>>,
     <<BoundaryArgs(TRUE, "A"), {}, 42161, "Legacy", FALSE, FALSE>>,
     <<BoundaryArgs(TRUE, NoAddr), {}, 1, "Legacy", FALSE, FALSE>>,
     <<BoundaryArgs(FALSE, NoAddr), {}, 1, "Legacy", FALSE, FALSE>>}

\* The single-sender list of n transactions of a long run, r of them mined.
BoundarySequence(n, r, c) ==
    Shaped(SequenceWith([i \in 1..n |-> "A"], [i \in 1..n |-> c[6]], r),
           [i \in 1..n |-> c[4]], [i \in 1..n |-> c[5] /\ i = n])

\* Single-sender lists whose tail has a boundary length; the list with a tail
\* of one batch is also entered with up to MaxDone receipts, and fully mined.
InitBoundary ==
    /\ \E c \in BoundaryConfigs :
          /\ self = c[1] /\ signers = c[2] /\ chain = c[3]
          /\ \/ \E len \in BoundaryLens :
                   SendEntry(BoundarySequence(len, 0, c))
             \/ \E r \in 1..MaxDone :
                   SendEntry(BoundarySequence(BatchSize + r, r, c))
             \/ SendEntry(BoundarySequence(BatchSize, BatchSize, c))
    /\ BundleIdle
    /\ estimation = None

Next ==
    \/ EnterProviderFail \/ EnterNothingToSend \/ EnterChainIdFail
    \/ EnterSenderUnset \/ EnterNoWallet \/ EnterFeeFail \/ EnterPanic
    \/ EnterOk
    \/ BatchBegin \/ Finish
    \/ SeqNonceQueryFail \/ SeqNonceDrift \/ SeqChainIdFail \/ SeqEstimateFail
    \/ SeqEstimatePanic \/ SeqZkFail \/ SeqSignFail
    \/ SeqSendFail \/ SeqSendOk \/ SeqClearOk \/ SeqClearFail
    \/ ParStart \/ ParComplete \/ ParYieldOk \/ ParYieldErr
    \/ ParSave \/ ParSaveFail \/ ParClearOk \/ ParClearFail
    \/ BatchEnd \/ BatchEndSaveFail

Spec == Init /\ [][Next]_vars

SpecBoundary == InitBoundary /\ [][Next]_vars

\* -------------------------------------------------- the entry, with fee flags
\* ScriptArgs and signer maps of the entry: the fee flags are given or not.
EntryArgs ==
    {<<[unlocked |-> u, slow |-> s, skip_simulation |-> FALSE, sender |-> a,
        with_gas_price |-> g, priority_gas_price |-> p, broadcast |-> TRUE,
        legacy |-> FALSE, gas_estimate_multiplier |-> DefaultMultiplier],
       w>> :
        <<u, s, a, w, g, p>> \in
            {c \in BOOLEAN \X BOOLEAN \X (Addrs \cup {NoAddr}) \X (SUBSET Addrs)
                   \X {None, Some("with_gas_price")}
                   \X {None, Some("priority_gas_price")} :
                IF c[1] THEN c[4] = {} ELSE c[3] = NoAddr}}

\* Every short list of legacy and fee-market requests, whose odd positions
\* have a fixed gas limit, under every entry configuration.
InitEntry ==
    /\ \E n \in 1..MaxTxs :
         \E froms \in [1..n -> Addrs], shapes \in [1..n -> Shapes], r \in 0..n :
             SendEntry(Shaped(SequenceWith(froms, [i \in 1..n |-> i % 2 = 1], r),
                              shapes, [i \in 1..n |-> FALSE]))
    /\ \E as \in EntryArgs : self = as[1] /\ signers = as[2]
    /\ chain \in Chains
    /\ BundleIdle
    /\ estimation = None

\* send_transactions up to the batch loop.
NextEntry ==
    \/ EnterProviderFail \/ EnterNothingToSend \/ EnterChainIdFail
    \/ EnterSenderUnset \/ EnterNoWallet \/ EnterFeeFail \/ EnterPanic
    \/ EnterOk

SpecEntry == InitEntry /\ [][NextEntry]_vars

\* ------------------------------------------------------------------ --resume
\* A later run with --resume: the record save() left on disk is loaded and
\* send_transactions is entered with it. The records resumed from hold at
\* most one pending hash per transaction (they were written by a run that was
\* not itself resumed).
Resume ==
    /\ pc \in {"error", "panic"}
    /\ saved # <<>>
    /\ Len(saved[1].pending) <= Len(saved[1].transactions)
    /\ deployment_sequence' = saved[1]
    /\ pc' = "entry"
    /\ err' = "none"
    /\ already_broadcasted' = 0
    /\ send_kind' = [tag |-> "none", senders |-> {}, signers |-> {}]
    /\ sequential_broadcast' = FALSE
    /\ sequence' = <<>>
    /\ batch_number' = 0
    /\ pos' = 0
    /\ index' = 0
    /\ queue' = <<>>
    /\ next_start' = 0
    /\ sendLog' = <<>>
    /\ pendLog' = <<>>
    /\ oracle' = <<>>
    /\ calls' = <<>>
    /\ UNCHANGED <<inputVars, saved, bundleVars, estimation>>

NextResume == Next \/ Resume

\* Runs that are resumed after a failure.
SpecResume == Init /\ [][NextResume]_vars

\* ------------------------------------------------------ bundle_transactions
Urls == {"urlA", "urlB"}
NoUrl == "none"

\* Chain id the provider of an endpoint reports.
ChainOf(url) == IF url = "urlA" THEN 1 ELSE 42161

\* tx.rpc, or the fork URL of the command line when the field is empty.
resolved_rpc(tx, fork) == IF tx.rpc # NoUrl THEN tx.rpc ELSE fork

\* Variant that continues whenever another transaction follows.
same_rpc_follows_any(s, c, tx_rpc) == c < Len(s)

\* if let Some(next_tx) = txes_iter.peek() { if next_tx.rpc == Some(tx_rpc) ..
\* The transaction after position c carries the endpoint tx_rpc: continue.
same_rpc_follows(s, c, tx_rpc) == c < Len(s) /\ s[c + 1].rpc = tx_rpc

\* The transaction as pushed to new_sequence: its rpc field is filled.
filled(tx, tx_rpc) == [tx EXCEPT !.rpc = tx_rpc]

\* ScriptSequence::new(new_sequence, .., config, ..)
new_script_sequence(txs, c) == [transactions |-> txs, chain |-> c]

CurTx == stream[cursor + 1]

\* ------------------------------------------------------------- estimate_gas
\* U256 multiplication panics when the product does not fit the type.
mul_overflows(a, b) == a * b > MaxWord

\* let _ = tx.gas_mut().take();
take_gas(tx) == [tx EXCEPT !.gas = None]

\* estimate * self.gas_estimate_multiplier / 100
scaled(estimate, multiplier) == (estimate * multiplier) \div 100

\* estimate_gas(tx, provider) for the answer of the endpoint (None: the call
\* failed): the request the endpoint received, the outcome, and the
\* transaction afterwards.
estimate_gas(tx, answer, multiplier) ==
    LET request == take_gas(tx)
    IN  IF answer = None
        THEN [outcome |-> "err", request |-> request, tx |-> request]
        ELSE IF mul_overflows(answer[1], multiplier)
             THEN [outcome |-> "panic", request |-> request, tx |-> request]
             ELSE [outcome |-> "ok", request |-> request,
                   tx |-> [request EXCEPT
                              !.gas = Some(scaled(answer[1], multiplier))]]

\* ------------------------------------------- the iteration of the bundling
\* ProviderInfo::is_legacy: --legacy, or a chain of the legacy table.
is_legacy(c, args) == args.legacy \/ c \in {56}

\* TransactionWithMetadata::change_type
change_type(tx, legacy) ==
    [tx EXCEPT !.shape = IF legacy THEN "Legacy" ELSE "Eip1559"]

\* tx.transaction.set_chain_id(provider_info.chain)
set_chain_id(tx, c) == [tx EXCEPT !.chain_id = Some(c)]

\* if !self.skip_simulation { if has_different_gas_calc(..) { estimate .. } }
estimates_in_bundle(args, c) ==
    ~args.skip_simulation /\ has_different_gas_calc(c)

\* Answers of the endpoint to the estimation of the bundling: the call fails,
\* or it returns an estimate near the simulated value, or the largest value.
BundleAnswers(tx, args, c) ==
    IF estimates_in_bundle(args, c)
    THEN {None, Some(tx.gas[1] + EstimateGap), Some(MaxWord)}
    ELSE {None}

\* The product of the answer and the multiplier does not fit: the
\* multiplication in estimate_gas panics.
EstimatePanics(tx, args, answer) ==
    estimate_gas(tx, answer, args.gas_estimate_multiplier).outcome = "panic"

\* The answers estimate_gas returns from.
ReturningAnswers(tx, args, c) ==
    {a \in BundleAnswers(tx, args, c) : ~EstimatePanics(tx, args, a)}

\* Variant that puts the default value back.
restore_gas_default(tx, gas) == [tx EXCEPT !.gas = Some(0)]

\* typed_tx.set_gas(gas): the value read before the attempt is put back.
restore_gas(tx, gas) == [tx EXCEPT !.gas = gas]

\* The transaction as pushed to new_sequence: rpc filled, type and chain id
\* set, gas re-estimated where the chain asks for it.
bundled(tx, fork, args, answer) ==
    LET tx_rpc == resolved_rpc(tx, fork)
        c == ChainOf(tx_rpc)
        typed == set_chain_id(change_type(filled(tx, tx_rpc),
                                          is_legacy(c, args)), c)
    IN  IF ~estimates_in_bundle(args, c) THEN typed
        ELSE LET r == estimate_gas(typed, answer,
                                   args.gas_estimate_multiplier)
             IN  IF r.outcome = "ok" THEN r.tx
                 ELSE restore_gas(r.tx, typed.gas)

\* *total_gas_per_rpc.entry(tx_rpc).or_insert(ZERO) += gas
add_total(total, rpc, gas) ==
    [u \in DOMAIN total \cup {rpc} |->
        (IF u \in DOMAIN total THEN total[u] ELSE 0)
            + (IF u = rpc THEN gas ELSE 0)]

\* The gas bookkeeping of one iteration.
BundleGas(answer) ==
    LET tx_rpc == resolved_rpc(CurTx, fork_url)
        tx == bundled(CurTx, fork_url, self, answer)
    IN  /\ total_gas_per_rpc' =
               IF self.skip_simulation THEN total_gas_per_rpc
               ELSE add_total(total_gas_per_rpc, tx_rpc, tx.gas[1])
        /\ estimates' =
               IF estimates_in_bundle(self, ChainOf(tx_rpc))
               THEN Append(estimates,
                           <<CurTx.id, IF answer = None THEN "err" ELSE "ok">>)
               ELSE estimates

\* --------------------------------------------------- create_script_sequences
\* Variant that fails on an empty list whether or not --broadcast is given.
create_outcome_strict(txs, broadcast) ==
    IF txs # <<>> THEN "bundle" ELSE "no_transactions"

\* if !txs.is_empty() { .. bundle_transactions .. } else if self.broadcast
\* { bail!(..) }; Ok(vec![])
create_outcome(txs, broadcast) ==
    IF txs # <<>> THEN "bundle"
    ELSE IF broadcast THEN "no_transactions" ELSE "empty"

createFrame == <<self, signers, chain, deployment_sequence, saved, pc,
                 already_broadcasted, send_kind, sequential_broadcast, sequence,
                 loopVars, obsVars, stream, fork_url, cursor, new_sequence,
                 deployments, config_chain, original_config_chain,
                 total_gas_per_rpc, estimates, estimation>>

\* bail!("No onchain transactions generated in script")
CreateNoTransactions ==
    /\ bpc = "create"
    /\ create_outcome(stream, self.broadcast) = "no_transactions"
    /\ bpc' = "error"
    /\ err' = "no_transactions"
    /\ UNCHANGED createFrame

\* Ok(vec![]) for an empty list without --broadcast.
CreateEmpty ==
    /\ bpc = "create"
    /\ create_outcome(stream, self.broadcast) = "empty"
    /\ bpc' = "done"
    /\ UNCHANGED <<createFrame, err>>

\* fills_transactions_with_gas(..).await? or get_returns(..)? fails.
CreateFail ==
    /\ bpc = "create"
    /\ create_outcome(stream, self.broadcast) = "bundle"
    /\ bpc' = "error"
    /\ err' \in {"fill_gas", "returns"}
    /\ UNCHANGED createFrame

\* The transactions are handed to bundle_transactions.
CreateBundle ==
    /\ bpc = "create"
    /\ create_outcome(stream, self.broadcast) = "bundle"
    /\ bpc' = "loop"
    /\ UNCHANGED <<createFrame, err>>

\* self.evm_opts.ensure_fork_url()? fails: no rpc field and no fork URL.
BundleResolveFail ==
    /\ bpc = "loop"
    /\ cursor < Len(stream)
    /\ resolved_rpc(CurTx, fork_url) = NoUrl
    /\ bpc' = "error"
    /\ UNCHANGED <<sendVars, estimation, stream, fork_url, cursor, new_sequence,
                   deployments, config_chain, original_config_chain,
                   total_gas_per_rpc, estimates>>

\* manager.get_or_init_provider(..).await? fails.
BundleProviderFail ==
    /\ bpc = "loop"
    /\ cursor < Len(stream)
    /\ resolved_rpc(CurTx, fork_url) # NoUrl
    /\ bpc' = "error"
    /\ UNCHANGED <<sendVars, estimation, stream, fork_url, cursor, new_sequence,
                   deployments, config_chain, original_config_chain,
                   total_gas_per_rpc, estimates>>

\* The multiplication in estimate_gas panics on the endpoint's answer.
BundleEstimatePanic ==
    /\ bpc = "loop"
    /\ cursor < Len(stream)
    /\ LET tx_rpc == resolved_rpc(CurTx, fork_url)
       IN  /\ tx_rpc # NoUrl
           /\ \E answer \in BundleAnswers(CurTx, self, ChainOf(tx_rpc)) :
                 EstimatePanics(CurTx, self, answer)
    /\ estimates' = Append(estimates, <<CurTx.id, "panic">>)
    /\ bpc' = "panic"
    /\ UNCHANGED <<sendVars, estimation, stream, fork_url, cursor, new_sequence,
                   deployments, config_chain, original_config_chain,
                   total_gas_per_rpc>>

\* The transaction is buffered and the next one has the same rpc: continue.
BundleContinue ==
    /\ bpc = "loop"
    /\ cursor < Len(stream)
    /\ LET tx_rpc == resolved_rpc(CurTx, fork_url)
       IN  /\ tx_rpc # NoUrl
           /\ same_rpc_follows(stream, cursor + 1, tx_rpc)
           /\ \E answer \in ReturningAnswers(CurTx, self, ChainOf(tx_rpc)) :
                 /\ new_sequence' =
                        Append(new_sequence,
                               bundled(CurTx, fork_url, self, answer))
                 /\ BundleGas(answer)
    /\ cursor' = cursor + 1
    /\ UNCHANGED <<sendVars, estimation, bpc, stream, fork_url, deployments,
                   config_chain, original_config_chain>>

\* The transaction is buffered and the buffer is closed into a ScriptSequence.
BundleClose ==
    /\ bpc = "loop"
    /\ cursor < Len(stream)
    /\ LET tx_rpc == resolved_rpc(CurTx, fork_url)
       IN  /\ tx_rpc # NoUrl
           /\ ~same_rpc_follows(stream, cursor + 1, tx_rpc)
           /\ config_chain' = <<ChainOf(tx_rpc)>>
           /\ \E answer \in ReturningAnswers(CurTx, self, ChainOf(tx_rpc)) :
                 /\ deployments' =
                        Append(deployments,
                               new_script_sequence(
                                   Append(new_sequence,
                                          bundled(CurTx, fork_url, self,
                                                  answer)),
                                   ChainOf(tx_rpc)))
                 /\ BundleGas(answer)
    /\ new_sequence' = <<>>
    /\ cursor' = cursor + 1
    /\ UNCHANGED <<sendVars, estimation, bpc, stream, fork_url, original_config_chain>>

\* ScriptSequence::new(..)? fails after config.chain was overwritten.
BundleCloseFail ==
    /\ bpc = "loop"
    /\ cursor < Len(stream)
    /\ LET tx_rpc == resolved_rpc(CurTx, fork_url)
       IN  /\ tx_rpc # NoUrl
           /\ ~same_rpc_follows(stream, cursor + 1, tx_rpc)
           /\ config_chain' = <<ChainOf(tx_rpc)>>
           /\ \E answer \in ReturningAnswers(CurTx, self, ChainOf(tx_rpc)) :
                 /\ new_sequence' =
                        Append(new_sequence,
                               bundled(CurTx, fork_url, self, answer))
                 /\ BundleGas(answer)
    /\ cursor' = cursor + 1
    /\ bpc' = "error"
    /\ UNCHANGED <<sendVars, estimation, stream, fork_url, deployments,
                   original_config_chain>>

\* The stream is exhausted: config.chain is restored, the gas totals are
\* presented, Ok(deployments).
BundleFinish ==
    /\ bpc = "loop"
    /\ cursor = Len(stream)
    /\ config_chain' = original_config_chain
    /\ bpc' = "done"
    /\ UNCHANGED <<sendVars, estimation, stream, fork_url, cursor, new_sequence,
                   deployments, original_config_chain, total_gas_per_rpc,
                   estimates>>

\* provider_info.gas_price()? or shell::println(..)? fails while the totals
\* are presented, after config.chain was restored.
BundleReportFail ==
    /\ bpc = "loop"
    /\ cursor = Len(stream)
    /\ ~self.skip_simulation
    /\ DOMAIN total_gas_per_rpc # {}
    /\ config_chain' = original_config_chain
    /\ bpc' = "error"
    /\ UNCHANGED <<sendVars, estimation, stream, fork_url, cursor, new_sequence,
                   deployments, original_config_chain, total_gas_per_rpc,
                   estimates>>

SendIdle ==
    /\ self \in {[unlocked |-> FALSE, slow |-> FALSE,
                   skip_simulation |-> k, sender |-> NoAddr,
                   with_gas_price |-> None, priority_gas_price |-> None,
                   broadcast |-> b, legacy |-> l,
                   gas_estimate_multiplier |-> DefaultMultiplier] :
                     k \in BOOLEAN, b \in BOOLEAN, l \in BOOLEAN}
    /\ signers = {}
    /\ chain = 1
    /\ SendEntry([transactions |-> <<>>, pending |-> <<>>, receipts |-> <<>>])

\* Every stream of up to MaxStream simulated fee-market transactions whose rpc
\* field is empty or one of two endpoints, with and without a fork URL,
\* --broadcast, --skip-simulation and --legacy.
InitBundle ==
    /\ \E n \in 0..MaxStream :
          \E rpcs \in [1..n -> Urls \cup {NoUrl}] :
              stream = [i \in 1..n |->
                           [id |-> i - 1, rpc |-> rpcs[i],
                            shape |-> "Eip1559", chain_id |-> None,
                            gas |-> Some(BaseGas + i - 1)]]
    /\ fork_url \in {NoUrl, "urlA"}
    /\ config_chain \in {None, <<1>>}
    /\ original_config_chain = config_chain
    /\ bpc = "create"
    /\ cursor = 0
    /\ new_sequence = <<>>
    /\ deployments = <<>>
    /\ total_gas_per_rpc = <<>>
    /\ estimates = <<>>
    /\ estimation = None
    /\ SendIdle

NextBundle ==
    \/ CreateNoTransactions \/ CreateEmpty \/ CreateFail \/ CreateBundle
    \/ BundleResolveFail \/ BundleProviderFail \/ BundleEstimatePanic
    \/ BundleContinue
    \/ BundleClose \/ BundleCloseFail \/ BundleFinish \/ BundleReportFail

SpecBundle == InitBundle /\ [][NextBundle]_vars

\* ------------------------------------------------- single chain deployment
\* send_transactions has not been entered.
SendOff ==
    /\ deployment_sequence =
           [transactions |-> <<>>, pending |-> <<>>, receipts |-> <<>>]
    /\ saved = <<>>
    /\ pc = "off"
    /\ err = "none"
    /\ already_broadcasted = 0
    /\ send_kind = [tag |-> "none", senders |-> {}, signers |-> {}]
    /\ sequential_broadcast = FALSE
    /\ sequence = <<>>
    /\ batch_number = 0
    /\ pos = 0
    /\ index = 0
    /\ queue = <<>>
    /\ next_start = 0
    /\ sendLog = <<>>
    /\ pendLog = <<>>
    /\ oracle = <<>>
    /\ calls = <<>>

\* ScriptArgs and signer maps of a script run, with and without --legacy.
DeployArgs ==
    {<<[as[1] EXCEPT !.legacy = l], as[2]>> :
        as \in ArgsAndSigners, l \in BOOLEAN}

\* The simulated transactions of a script that ran against one endpoint.
DeployStream(url, froms, fixed, zk) ==
    [i \in 1..Len(froms) |->
        [id |-> i - 1, rpc |-> url, shape |-> "Eip1559", chain_id |-> None,
         gas |-> Some(BaseGas + i - 1), from |-> froms[i],
         nonce |-> NonceAt(froms, i), is_fixed_gas_limit |-> fixed[i],
         zk |-> zk, hash |-> None]]

\* Every short script against one endpoint (--fork-url), under every
\* configuration.
InitDeploy ==
    /\ \E n \in 1..MaxDeploy, url \in Urls :
          \E froms \in [1..n -> Addrs], fixed \in FixedFlags(n),
             zk \in BOOLEAN :
              /\ stream = DeployStream(url, froms, fixed, zk)
              /\ fork_url = url
              /\ chain = ChainOf(url)
    /\ \E as \in DeployArgs : self = as[1] /\ signers = as[2]
    /\ config_chain = None
    /\ original_config_chain = config_chain
    /\ bpc = "create"
    /\ cursor = 0
    /\ new_sequence = <<>>
    /\ deployments = <<>>
    /\ total_gas_per_rpc = <<>>
    /\ estimates = <<>>
    /\ estimation = None
    /\ SendOff

\* handle_broadcastable_transactions with one endpoint and --broadcast:
\* single_deployment hands the first sequence, which has no pending hash and
\* no receipt, to send_transactions (without --verify).
SingleDeployment ==
    /\ bpc = "done"
    /\ pc = "off"
    /\ self.broadcast
    /\ deployments # <<>>
    /\ deployment_sequence' =
           [transactions |-> deployments[1].transactions,
            pending |-> <<>>, receipts |-> <<>>]
    /\ pc' = "entry"
    /\ UNCHANGED <<inputVars, saved, err, already_broadcasted, send_kind,
                   sequential_broadcast, sequence, loopVars, obsVars,
                   bundleVars, estimation>>

NextDeploy ==
    \/ CreateFail \/ CreateBundle
    \/ BundleProviderFail \/ BundleEstimatePanic \/ BundleContinue
    \/ BundleClose \/ BundleCloseFail \/ BundleFinish \/ BundleReportFail
    \/ SingleDeployment
    \/ EnterProviderFail \/ EnterChainIdFail
    \/ EnterSenderUnset \/ EnterNoWallet \/ EnterFeeFail \/ EnterPanic
    \/ EnterOk
    \/ BatchBegin \/ Finish
    \/ SeqNonceQueryFail \/ SeqNonceDrift \/ SeqChainIdFail \/ SeqEstimateFail
    \/ SeqEstimatePanic \/ SeqZkFail \/ SeqSignFail
    \/ SeqSendFail \/ SeqSendOk \/ SeqClearOk \/ SeqClearFail
    \/ ParStart \/ ParComplete \/ ParYieldOk \/ ParYieldErr
    \/ ParSave \/ ParSaveFail \/ ParClearOk \/ ParClearFail
    \/ BatchEnd \/ BatchEndSaveFail

\* A script is bundled and its single sequence is broadcast.
SpecDeploy == InitDeploy /\ [][NextDeploy]_vars

\* ------------------------------------------------- estimate_gas on its own
\* Gas limits a transaction carries into estimate_gas.
PriorGas == {None, Some(0), Some(BaseGas), Some(MaxWord)}

\* Estimates of the endpoint: small ones, ones around a multiple of 100, and
\* the ones around the largest whose product with the multiplier fits.
Estimates ==
    {0, 1, 99, 100, 101, BaseGas, BaseGas + EstimateGap,
     MaxWord \div 100, MaxWord \div 100 + 1,
     MaxWord \div DefaultMultiplier, MaxWord \div DefaultMultiplier + 1,
     MaxWord}

\* Values of --gas-estimate-multiplier.
Multipliers == {1, 99, 100, DefaultMultiplier, 200}

\* One call of estimate_gas: every prior gas limit, answer of the endpoint
\* and multiplier.
InitEstimate ==
    /\ \E g \in PriorGas, a \in {None} \cup {Some(e) : e \in Estimates} :
          estimation = [tx |-> [id |-> 0, gas |-> g], answer |-> a,
                        request |-> None, st |-> "call"]
    /\ \E m \in Multipliers :
          self = [BoundaryArgs(FALSE, NoAddr) EXCEPT
                     !.gas_estimate_multiplier = m]
    /\ signers = {}
    /\ chain = 1
    /\ SendOff
    /\ BundleIdle

\* The outcome of the call.
Estimated ==
    estimate_gas(estimation.tx, estimation.answer,
                 self.gas_estimate_multiplier)

\* The endpoint answers and the product fits: Ok(()) with the gas limit set.
EstimateGasOk ==
    /\ estimation # None
    /\ estimation.st = "call"
    /\ Estimated.outcome = "ok"
    /\ estimation' = [estimation EXCEPT !.tx = Estimated.tx,
                                        !.request = Some(Estimated.request),
                                        !.st = "ok"]
    /\ UNCHANGED <<sendVars, bundleVars>>

\* provider.estimate_gas(tx, None).await fails: the error is returned, the
\* gas limit stays cleared.
EstimateGasErr ==
    /\ estimation # None
    /\ estimation.st = "call"
    /\ Estimated.outcome = "err"
    /\ estimation' = [estimation EXCEPT !.tx = Estimated.tx,
                                        !.request = Some(Estimated.request),
                                        !.st = "err"]
    /\ UNCHANGED <<sendVars, bundleVars>>

\* The product of the estimate and the multiplier does not fit: panic.
EstimateGasPanic ==
    /\ estimation # None
    /\ estimation.st = "call"
    /\ Estimated.outcome = "panic"
    /\ estimation' = [estimation EXCEPT !.tx = Estimated.tx,
                                        !.request = Some(Estimated.request),
                                        !.st = "panic"]
    /\ UNCHANGED <<sendVars, bundleVars>>

NextEstimate == EstimateGasOk \/ EstimateGasErr \/ EstimateGasPanic

SpecEstimate == InitEstimate /\ [][NextEstimate]_vars

\* =================================================================== claims
\* Hash of the transaction with the given id (its position in the full list).
HashOfId(id) == HashOf(deployment_sequence.transactions[id + 1])

PendLogHashes == {pendLog[j][2] : j \in 1..Len(pendLog)}

\* C1: in sequential mode a send call is issued only when every transaction
\* sent earlier in the run has had its hash recorded with add_pending and has
\* its receipt (clear_pendings for it has returned).
C1_SequentialSendAfterReceipt ==
    [][(sequential_broadcast /\ sendLog' # sendLog) =>
          \A j \in 1..Len(sendLog) :
              /\ HashOfId(sendLog[j]) \in PendLogHashes
              /\ HasReceipt(deployment_sequence, HashOfId(sendLog[j]))]_vars

\* A second transaction has been sent sequentially and has its receipt.
C1_Witness ==
    /\ sequential_broadcast
    /\ Len(sendLog) >= 2
    /\ HasReceipt(deployment_sequence, HashOfId(sendLog[2]))

\* C2: in parallel mode the i-th hash passed to add_pending is the hash of
\* the i-th tail transaction in submission order, whatever the order in which
\* the sends complete, for tails of 100, 101, 199 and 200 transactions.
C2_ParallelHashOrder ==
    (pc # "entry" /\ ~sequential_broadcast) =>
        \A i \in 1..Len(pendLog) : pendLog[i][2] = HashOf(sequence[i].tx)

\* In the second batch a younger send has completed before the oldest one.
C2_Witness ==
    /\ pc = "par"
    /\ batch_number = 1
    /\ Len(pendLog) > BatchSize
    /\ Len(queue) >= 2
    /\ queue[1].st = "running"
    /\ queue[Len(queue)].st = "done"

InFlight == Cardinality(Running(queue))

\* C3: at most 7 send_transaction calls are in flight, and a send is started
\* only while fewer than 7 earlier sends of the batch are unfinished.
C3_AtMostSevenInFlight ==
    /\ [](InFlight <= BufferWidth)
    /\ [][(pc = "par" /\ sendLog' # sendLog) => InFlight < BufferWidth]_vars

\* Seven sends are in flight.
C3_Witness == pc = "par" /\ InFlight = BufferWidth

\* C4: only the transactions at indices receipts.len() (at entry) up to
\* transactions.len() - 1 are sent, each at most once; nothing is sent when
\* the sequence is entered fully mined.
C4_OnlyTailSent ==
    /\ \A j \in 1..Len(sendLog) :
          /\ sendLog[j] >= already_broadcasted
          /\ sendLog[j] <= Len(deployment_sequence.transactions) - 1
          /\ \A i \in 1..Len(sendLog) : sendLog[i] = sendLog[j] => i = j
    /\ (pc # "entry"
        /\ already_broadcasted = Len(deployment_sequence.transactions))
          => sendLog = <<>>

\* A sequence entered with a mined prefix was completed by sending its tail.
C4_Witness ==
    /\ pc = "done"
    /\ already_broadcasted > 0
    /\ sendLog # <<>>
    /\ Len(sendLog) = Len(deployment_sequence.transactions) - already_broadcasted

NumTxs == Len(deployment_sequence.transactions)

\* The state an uninterrupted run over the whole list ends in: every
\* transaction carries its own hash, and pending and receipts list the
\* hashes in transaction order.
UninterruptedFinal ==
    [transactions |->
         [i \in 1..NumTxs |->
             [deployment_sequence.transactions[i] EXCEPT
                 !.hash = HashOf(deployment_sequence.transactions[i])]],
     pending |-> [i \in 1..NumTxs |-> HashOf(deployment_sequence.transactions[i])],
     receipts |-> [i \in 1..NumTxs |->
         [transaction_hash |-> HashOf(deployment_sequence.transactions[i])]]]

\* C5: a run entered after M receipts that broadcasts the remaining N - M
\* transactions ends in the final state of one uninterrupted run.
C5_ResumeEqualsUninterrupted ==
    pc = "done" => deployment_sequence = UninterruptedFinal

C7_NonceDriftStopsRun ==
    (oracle # <<>>
     /\ oracle[2] # deployment_sequence.transactions[oracle[1] + 1].nonce) =>
        /\ pc = "error"
        /\ err = "nonce_drift"
        /\ \A j \in 1..Len(sendLog) : sendLog[j] < oracle[1]
        /\ oracle[1] = already_broadcasted => pendLog = <<>>

\* The first tail transaction drifted.
C7_Witness ==
    /\ err = "nonce_drift"
    /\ oracle # <<>>
    /\ oracle[1] = already_broadcasted
    /\ oracle[2] = deployment_sequence.transactions[oracle[1] + 1].nonce + DriftGap
    /\ pendLog = <<>>

\* Number of senders of the resolved kind, from the inputs of the run.
SignerCount ==
    IF self.unlocked THEN Cardinality(send_kind.senders)
    ELSE Cardinality(signers)

ParallelRun == SignerCount = 1 /\ ~self.slow /\ has_batch_support(chain)

\* C8: the mode is decided once as sequential = (signerCount # 1) or slow or
\* no batch support; the run sends in parallel exactly when signerCount = 1,
\* slow is unset and the chain supports batching, and never changes mode.
C8_ModeDecidedOnce ==
    /\ []((pc \in {"seq", "clear"}) => ~ParallelRun)
    /\ []((pc \in {"par", "parClear"}) => ParallelRun)
    /\ []((send_kind.tag # "none") => (sequential_broadcast = ~ParallelRun))
    /\ [][(send_kind.tag # "none") =>
              sequential_broadcast' = sequential_broadcast]_vars

\* A parallel run and its single signer.
C8_Witness ==
    /\ pc = "parClear"
    /\ SignerCount = 1
    /\ ~self.slow
    /\ ~sequential_broadcast

RECURSIVE Flatten(_)
Flatten(ds) ==
    IF ds = <<>> THEN <<>>
    ELSE ds[1].transactions \o Flatten(SubSeq(ds, 2, Len(ds)))

StreamRpcs == [i \in 1..Len(stream) |-> stream[i].rpc]

\* C9: the produced sequences, concatenated, are the consumed input in input
\* order (each transaction once, with its endpoint resolved); every sequence
\* is non-empty and holds one endpoint; A,B,A gives three sequences and
\* A,A,B,B,A gives sequences of lengths 2,2,1.
C9_BundlePartition ==
    LET out == Flatten(deployments) \o new_sequence
    IN  /\ Len(out) = cursor
        /\ \A i \in 1..Len(out) :
              /\ out[i].id = stream[i].id
              /\ out[i].rpc = resolved_rpc(stream[i], fork_url)
        /\ \A d \in 1..Len(deployments) :
              /\ deployments[d].transactions # <<>>
              /\ \A i, j \in 1..Len(deployments[d].transactions) :
                    deployments[d].transactions[i].rpc =
                        deployments[d].transactions[j].rpc
        /\ bpc = "done" =>
              /\ Len(out) = Len(stream)
              /\ new_sequence = <<>>
              /\ StreamRpcs = <<"urlA", "urlB", "urlA">> => Len(deployments) = 3
              /\ StreamRpcs = <<"urlA", "urlA", "urlB", "urlB", "urlA">> =>
                    [d \in 1..Len(deployments) |->
                        Len(deployments[d].transactions)] = <<2, 2, 1>>

\* The stream A,A,B,B,A was bundled into three sequences.
C9_Witness ==
    /\ bpc = "done"
    /\ StreamRpcs = <<"urlA", "urlA", "urlB", "urlB", "urlA">>
    /\ Len(deployments) = 3

\* Errors raised while transactions are submitted or receipts are polled.
RunErrors == {"nonce_drift", "nonce_query", "estimate_gas", "sign", "send",
              "receipts"}

\* C10: when a run ends with an error raised while submitting or polling,
\* the sequence has been saved, so every hash recorded with add_pending
\* before the error is in the persisted record.
C10_SavedBeforeError ==
    (pc = "error" /\ err \in RunErrors) =>
        \A j \in 1..Len(pendLog) :
            /\ saved # <<>>
            /\ pendLog[j][2] \in Range(saved[1].pending)

\* Hashes of the pending list of the sequence that have no receipt yet.
PendingWithoutReceipt ==
    {h \in Range(deployment_sequence.pending) :
        ~HasReceipt(deployment_sequence, h)}

SendPositions == {p \in 1..Len(calls) : calls[p][1] \in SendCalls}

\* Positions of the call log that hold the estimate_gas call of a transaction.
EstimatePositions(id) ==
    {q \in 1..Len(calls) : calls[q][1] = "estimate_gas" /\ calls[q][2] = id}

\* Gas is to be re-estimated for the transaction according to the rule
\* (different gas calculation or skip_simulation) and no fixed gas limit.
ReestimationApplies(id) ==
    /\ has_different_gas_calc(chain) \/ self.skip_simulation
    /\ ~deployment_sequence.transactions[id + 1].is_fixed_gas_limit

\* C12: under both kinds, estimate_gas is called for a transaction that is
\* sent exactly when (the chain has a different gas calculation or
\* skip_simulation is set) and is_fixed_gas_limit is unset; then it is called
\* once, right before the send; a transaction with is_fixed_gas_limit is
\* sent with the gas limit stored in the sequence.
C12_EstimateIffNotFixed ==
    \A p \in SendPositions :
        LET id == calls[p][2]
        IN  /\ Cardinality(EstimatePositions(id)) =
                   IF ReestimationApplies(id) THEN 1 ELSE 0
            /\ \A q \in EstimatePositions(id) :
                   q < p /\ \A r \in q..p : calls[r][2] = id
            /\ deployment_sequence.transactions[id + 1].is_fixed_gas_limit =>
                   calls[p][3] = deployment_sequence.transactions[id + 1].gas

\* Under the Raw kind a sender of the tail has no entry in the signer map.
WalletMissing ==
    /\ ~self.unlocked
    /\ \E i \in (Len(deployment_sequence.receipts) + 1)..NumTxs :
          deployment_sequence.transactions[i].from \notin signers

\* --unlocked without a configured sender, with transactions left to send.
SenderMissing == self.unlocked /\ self.sender = NoAddr /\ TailNonEmpty

ConfigErrors == {"no_wallet", "sender_unset"}

SentThrough(b) == Min((b + 1) * BatchSize, Len(sequence))

\* Lengths of the chunks of a vector of two and a half batches.
ExampleChunks ==
    LET s == [i \in 1..(2 * BatchSize + BatchSize \div 2) |-> i]
    IN  [b \in 1..NumChunks(s) |-> Len(Chunk(s, b - 1))]

\* C14: the tail is sent in consecutive batches of 100 (the last one may be
\* shorter; 250 gives 100, 100, 50). In parallel mode the sequence is saved
\* once every hash of the batch is recorded, the receipts are polled after
\* that, and a transaction of a later batch is sent only when every
\* transaction of the earlier batches has its receipt. Every batch ends with
\* a save().
C14_BatchesSavedThenPolled ==
    /\ [](ExampleChunks = <<BatchSize, BatchSize, BatchSize \div 2>>)
    /\ [](pc \in {"par", "seq", "clear"} =>
            /\ Len(sendLog) <= SentThrough(batch_number)
            /\ Len(sendLog) >= batch_number * BatchSize)
    /\ [](pc \in {"parClear", "batchEnd"} =>
            /\ Len(sendLog) = SentThrough(batch_number)
            /\ Len(pendLog) = SentThrough(batch_number))
    /\ [](pc = "parClear" =>
            /\ saved = Persisted(deployment_sequence)
            /\ \A k \in 1..SentThrough(batch_number) :
                   HashOf(sequence[k].tx) \in Range(saved[1].pending))
    /\ [][(~sequential_broadcast /\ Len(sendLog') > Len(sendLog)) =>
              \A k \in 1..(batch_number * BatchSize) :
                  HasReceipt(deployment_sequence, HashOf(sequence[k].tx))]_vars
    /\ []((pc = "batch" /\ batch_number > 0) =>
            saved = Persisted(deployment_sequence))

\* The second batch of a parallel run is being sent.
C14_Witness ==
    /\ pc = "par"
    /\ ~sequential_broadcast
    /\ batch_number = 1
    /\ Len(sendLog) > BatchSize
    /\ saved # <<>>
    /\ Len(deployment_sequence.receipts) >= BatchSize

\* Number of calls of the given names in the call log.
CallCount(names) == Cardinality({p \in 1..Len(calls) : calls[p][1] \in names})

\* The loop was entered in parallel mode over fee-market transactions.
ParallelFeeMarket ==
    /\ send_kind.tag # "none"
    /\ ~sequential_broadcast
    /\ \A i \in 1..NumTxs :
          deployment_sequence.transactions[i].shape = "Eip1559"

\* C15: in a parallel run over fee-market transactions the fee estimation
\* (estimate_eip1559_fees) is called once, whatever the length of the tail
\* and the number of batches, and the nonce is never queried; when the run
\* returns success exactly one send call was issued for every transaction of
\* the tail.
C15_OneFeeEstimatePerRun ==
    ParallelFeeMarket =>
        /\ CallCount({"estimate_eip1559_fees"}) = 1
        /\ CallCount({"get_gas_price"}) = 0
        /\ CallCount({"next_nonce"}) = 0
        /\ pc = "done" =>
              /\ CallCount(SendCalls) = Len(sequence)
              /\ \A k \in 1..Len(sequence) :
                    Cardinality({p \in SendPositions :
                                    calls[p][2] = sequence[k].tx.id}) = 1

\* A parallel run over fee-market transactions returned success after more
\* than one batch.
C15_Witness ==
    /\ ParallelFeeMarket
    /\ pc = "done"
    /\ batch_number >= 2
    /\ Len(sequence) > BatchSize
    /\ Len(deployment_sequence.receipts) = NumTxs

\* C16: create_script_sequences on an empty transaction list fails with "No
\* onchain transactions generated in script" when --broadcast is set, having
\* created no sequence and sent nothing, and returns an empty list of
\* sequences without error when it is unset; on a non-empty list it never
\* fails with that error.
C16_NoTransactions ==
    /\ (stream = <<>> /\ bpc # "create") =>
          /\ deployments = <<>>
          /\ sendLog = <<>>
          /\ IF self.broadcast
             THEN bpc = "error" /\ err = "no_transactions"
             ELSE bpc = "done" /\ err = "none"
    /\ stream # <<>> => err # "no_transactions"

\* The empty list was rejected under --broadcast.
C16_Witness ==
    /\ stream = <<>>
    /\ self.broadcast
    /\ bpc = "error"
    /\ err = "no_transactions"

\* Position of the call of the given name for the transaction, 0 if absent.
CallPosition(name, id) ==
    IF \E p \in 1..Len(calls) : calls[p][1] = name /\ calls[p][2] = id
    THEN CHOOSE p \in 1..Len(calls) : calls[p][1] = name /\ calls[p][2] = id
    ELSE 0

\* Failures of the steps of the Eip712 branch.
ZkStepFailures == {"gas_price", "estimate_fee", "sign", "send"}

\* C17: a transaction with zk metadata that is sent under the Raw kind goes
\* through zks_estimateFee, then sign_typed_data, then send_raw_transaction;
\* it is submitted with the gas limit zks_estimateFee returned; and a
\* failure of any of these steps ends the run with an error that is returned.
C17_ZkOrderAndErrors ==
    /\ \A p \in SendPositions :
          LET id == calls[p][2]
          IN  (~self.unlocked /\ deployment_sequence.transactions[id + 1].zk) =>
                  /\ calls[p][1] = "send_raw_transaction"
                  /\ 0 < CallPosition("zks_estimateFee", id)
                  /\ CallPosition("zks_estimateFee", id)
                         < CallPosition("sign_typed_data", id)
                  /\ CallPosition("sign_typed_data", id) < p
                  /\ calls[p][3] = <<"estimate_fee", id>>
    /\ err \in ZkStepFailures => pc = "error"

\* Senders of the transactions at indices >= receipts.len().
TailFroms ==
    {deployment_sequence.transactions[i].from :
        i \in (already_broadcasted + 1)..NumTxs}

\* Senders of all transactions of the sequence.
AllFroms == {deployment_sequence.transactions[i].from : i \in 1..NumTxs}

\* C18 as claimed: with --unlocked the sender set is the configured sender
\* and the senders of the tail; senders that occur only in the mined prefix
\* are not in it and do not influence the sequential/parallel decision.
C18_SendersOfTail ==
    send_kind.tag = "Unlocked" =>
        /\ send_kind.senders = {self.sender} \cup TailFroms
        /\ sequential_broadcast =
               SequentialBroadcast(Cardinality({self.sender} \cup TailFroms),
                                   self.slow, chain)

\* C18 amended: with --unlocked the sender set is the configured sender and
\* the senders of all transactions of the sequence, the mined prefix
\* included; its size is the signer count of the sequential/parallel
\* decision.
C18_SendersOfSequence ==
    send_kind.tag = "Unlocked" =>
        /\ send_kind.senders = {self.sender} \cup AllFroms
        /\ sequential_broadcast =
               SequentialBroadcast(Cardinality({self.sender} \cup AllFroms),
                                   self.slow, chain)

\* A sender of the mined prefix alone makes the run sequential.
C18_Witness ==
    /\ send_kind.tag = "Unlocked"
    /\ already_broadcasted > 0
    /\ {self.sender} \cup TailFroms = {self.sender}
    /\ send_kind.senders = Addrs
    /\ ~self.slow
    /\ has_batch_support(chain)
    /\ sequential_broadcast

\* The one-time estimation was made.
SnapshotTaken == calls # <<>>

C20_FeeFilling ==
    \A k \in 1..Len(sequence) :
        LET e == sequence[k]
            t == deployment_sequence.transactions[already_broadcasted + k]
            market == t.shape = "Eip1559"
        IN  /\ e.tx.id = t.id
            /\ e.tx.chain_id = Some(chain)
            /\ e.tx.nonce = t.nonce
            /\ e.is_fixed_gas_limit = t.is_fixed_gas_limit
            /\ e.tx.shape = t.shape
            /\ e.tx.gas_price =
                   IF market THEN None
                   ELSE IF self.with_gas_price # None THEN self.with_gas_price
                        ELSE Some("provider_gas_price")
            /\ e.tx.max_fee_per_gas =
                   IF ~market THEN None
                   ELSE IF self.with_gas_price # None THEN self.with_gas_price
                        ELSE Some("est_max_fee")
            /\ e.tx.max_priority_fee_per_gas =
                   IF ~market THEN None
                   ELSE IF self.with_gas_price # None THEN self.with_gas_price
                        ELSE IF self.priority_gas_price # None
                             THEN self.priority_gas_price
                             ELSE Some("est_priority_fee")

\* A fee-market request of a resumed list took --priority-gas-price next to
\* a second one.
C20_Witness ==
    /\ pc = "batch"
    /\ already_broadcasted > 0
    /\ Len(sequence) >= 2
    /\ self.with_gas_price = None
    /\ sequence[2].tx.shape = "Eip1559"
    /\ sequence[2].tx.max_priority_fee_per_gas = Some("priority_gas_price")
    /\ sequence[2].tx.max_fee_per_gas = Some("est_max_fee")

\* The batch loop was entered on a chain with a different gas calculation.
EnteredDifferentGasCalc ==
    send_kind.tag # "none" /\ has_different_gas_calc(chain)

\* C21: on a chain classified different-gas-calc the run is sequential for
\* every signer count and with slow unset: the parallel branch is never
\* taken, and a send call is issued only when every transaction sent earlier
\* in the run has its receipt.
C21_DifferentGasCalcSequential ==
    /\ [](EnteredDifferentGasCalc =>
            /\ sequential_broadcast
            /\ pc \notin {"par", "parClear"})
    /\ [][(EnteredDifferentGasCalc /\ sendLog' # sendLog) =>
              \A j \in 1..Len(sendLog) :
                  HasReceipt(deployment_sequence, HashOfId(sendLog[j]))]_vars

\* Endpoint of the d-th produced sequence.
EndpointOf(d) == deployments[d].transactions[1].rpc

\* C22: a sequence is closed only when the next transaction resolves to
\* another endpoint than the current one (an empty rpc field resolving to
\* the fork URL) or the stream ends; adjacent transactions that resolve to
\* the same endpoint share a sequence, so no two adjacent produced sequences
\* have the same endpoint.
C22_ClosedOnEndpointChange ==
    /\ [][Len(deployments') > Len(deployments) =>
              \/ cursor + 1 = Len(stream)
              \/ resolved_rpc(stream[cursor + 2], fork_url)
                     # resolved_rpc(CurTx, fork_url)]_vars
    /\ [](\A d \in 1..(Len(deployments) - 1) : EndpointOf(d) # EndpointOf(d + 1))

\* The transactions bundle_transactions has pushed so far, in order.
BundledTxs == Flatten(deployments) \o new_sequence

\* Sum of the gas values of the transactions bundled for the endpoint.
RECURSIVE GasOf(_, _)
GasOf(txs, url) ==
    IF txs = <<>> THEN 0
    ELSE (IF txs[1].rpc = url THEN txs[1].gas[1] ELSE 0)
             + GasOf(SubSeq(txs, 2, Len(txs)), url)

\* The step makes an estimate_gas call of the bundling that fails.
BundleEstimateFails ==
    /\ Len(estimates') = Len(estimates) + 1
    /\ estimates'[Len(estimates')][2] = "err"

\* The transaction whose send_transaction call ends the run.
FailingTx ==
    IF sequential_broadcast THEN Cur.tx
    ELSE Batch[queue[yield_pos(queue)].k].tx

C24_EstimateScaled ==
    (estimation # None /\ estimation.st # "call") =>
        /\ estimation.request # None
        /\ estimation.request[1].gas = None
        /\ estimation.answer # None =>
              /\ estimation.st = "ok"
              /\ estimation.tx.gas =
                     Some((estimation.answer[1] * self.gas_estimate_multiplier)
                              \div 100)

\* C25: once the send kind is resolved for a tail whose transactions come
\* from two or more distinct senders, the run is sequential and never takes
\* the parallel branch, under the Unlocked and the Raw kind, with and
\* without --slow, on every chain.
C25_TwoSendersSequential ==
    (send_kind.tag # "none" /\ Cardinality(TailFroms) >= 2) =>
        /\ signers_count(send_kind) >= 2
        /\ sequential_broadcast
        /\ pc \notin {"par", "parClear"}

\* Two senders in the tail, Raw kind, no --slow, a chain with batch support:
\* both transactions were sent one after the other.
C25_Witness ==
    /\ send_kind.tag = "Raw"
    /\ ~self.slow
    /\ has_batch_support(chain)
    /\ Cardinality(TailFroms) = 2
    /\ sequential_broadcast
    /\ Len(sendLog) = 2
    /\ pc = "done"

\* C26: whenever bundle_transactions has returned, with Ok or with an error,
\* config.chain has the value it had at entry: the overwrite made while a
\* sequence is closed is undone on every exit path.
C26_ConfigChainRestored ==
    bpc \in {"done", "error"} => config_chain = original_config_chain

\* C27: the j-th add_pending call of a run entered with R receipts passes
\* the index R + j - 1, which is the position in the full transaction list
\* of the transaction that produced the hash it passes.
C27_PendingIndexIsPosition ==
    \A j \in 1..Len(pendLog) :
        /\ pendLog[j][1] = already_broadcasted + j - 1
        /\ pendLog[j][1] < NumTxs
        /\ pendLog[j][2] = HashOfId(pendLog[j][1])

\* C28: without --with-gas-price the run never ends in the panic of a
\* missing fee value (the gas price for a legacy request, the fee pair for a
\* fee-market request), whatever shapes the sequence mixes and whether or
\* not the gas-price query succeeded; with --with-gas-price the run never
\* ends because the one-time fee estimation failed.
C28_FeeAlwaysAvailable ==
    /\ self.with_gas_price = None =>
           err \notin {"expect_gas_price", "expect_eip1559_fees"}
    /\ self.with_gas_price # None => err # "eip1559_fees"

====
